---- MODULE Spec2Model ----
(***************************************************************************)
(* Model of the BLE environmental-sensing GATT server of                   *)
(* src/ble_environment.py (class BLEEnvironment and the polling loop run)  *)
(* together with the blink helper of src/gpio.py.                          *)
(*                                                                         *)
(* Two contexts run: the polling loop (construction, then publish,         *)
(* read_act, sleep, forever) and the BLE stack, which delivers events to   *)
(* the callback _irq and lets a peer write the string characteristic.  The *)
(* source holds no lock, so the stack's steps interleave with the polling  *)
(* loop between any two of its statements.                                 *)
(***************************************************************************)
EXTENDS Integers, Sequences, FiniteSets

\* ---------------------------------------------------------------- bounds
\* connection handles the stack may report are 1..MaxHandles
MaxHandles == 2
\* number of connect/disconnect events delivered in one behaviour
MaxEvents == 2
\* number of elements one iteration of a set mutated under it may yield
MaxVisits == 3
\* number of passes of the while loop of run that are followed
MaxIterations == 20

Handles == 1..MaxHandles

\* ------------------------------------------------------ program constants
_IRQ_CENTRAL_CONNECT == 1
_IRQ_CENTRAL_DISCONNECT == 2
_IRQ_GATTS_INDICATE_DONE == 20
\* an event code of the stack that _irq has no branch for (a GATTS write)
_IRQ_OTHER == 3
_ADV_APPEARANCE_GENERIC_ENVIRONMENTAL_SENSOR == 5696
_ENV_SENSE_UUID == 6170
\* default of _advertise's interval_us
interval_us == 500000
\* blink is called range(3) times
BlinkRange == 3

\* ------------------------------------------------------------ bytes
\* bytes('blink', 'utf-8')
BlinkBytes == <<98, 108, 105, 110, 107>>
HelloBytes == <<104, 101, 108, 108, 111>>
\* a characteristic nobody has written yet reads as empty bytes
EmptyBytes == <<>>

\* struct.pack("<i", v): four bytes, least significant first, two's
\* complement.  Computed byte by byte with floor division so that no
\* intermediate leaves the 32-bit range.
PackByte(v, i) ==
    LET s1 == (v - (v % 256)) \div 256
        s2 == (s1 - (s1 % 256)) \div 256
        s3 == (s2 - (s2 % 256)) \div 256
    IN  CASE i = 1 -> v % 256
          [] i = 2 -> s1 % 256
          [] i = 3 -> s2 % 256
          [] OTHER -> s3 % 256

\* the four bytes most significant first, as struct.pack(">i", v)
PackBigEndian(v) == <<PackByte(v, 4), PackByte(v, 3), PackByte(v, 2), PackByte(v, 1)>>

Pack(v) == <<PackByte(v, 1), PackByte(v, 2), PackByte(v, 3), PackByte(v, 4)>>

\* int(x) of a numeric sensor value: truncation toward zero.  Sensor values
\* are carried in tenths (215 is 21.5).
IntOf(x) == IF x >= 0 THEN x \div 10 ELSE -((-x) \div 10)

\* the samples the polling loop may hand to set_environment_data
Samples == { <<210, 1013250, 450>>, <<-55, 990009, 1000>> }

\* what a peer may write to the string characteristic
PeerWrites == { BlinkBytes, HelloBytes }

\* advertising_payload(name, services, appearance)
advertising_payload(name, services, appearance) ==
    [name |-> name, services |-> services, appearance |-> appearance]

\* the four value handles gatts_register_services returns, in the order of
\* the characteristics of _ENV_SENSE_SERVICE
gatts_register_services == <<21, 22, 23, 24>>

\* status values an indicate-done event may carry
Statuses == {0, 14}

\* integer samples over the signed 32-bit range, for the round trip of
\* struct.pack: int(v) of an integer is v
IntInputs == {-2147483647 - 1, -2147483647, -16777217, -65536, -129, -128, -1,
              0, 1, 127, 128, 255, 256, 65535, 101325, 16777216, 2147483647}

\* the ends of the range, and the value with every bit set
IntEdges == {-2147483647 - 1, -1, 2147483647}

NoHandles == [temp |-> 0, pressure |-> 0, humidity |-> 0, string |-> 0]
NoPayload == [name |-> "", services |-> <<>>, appearance |-> 0]

VARIABLES
    pc,           \* position of the polling context
    handles,      \* _temp_handle, _pressure_handle, _humidity_handle, _string_handle
    gatts,        \* the stack's value of each characteristic, by value handle
    connections,  \* self._connections
    payload,      \* self._payload
    advCalls,     \* number of gap_advertise calls made so far
    advData,      \* the set of <<interval, adv_data>> passed to gap_advertise
    events,       \* the connect/disconnect events delivered so far, in order
    irqErrors,    \* number of _irq calls that ended in an exception
    args,         \* arguments of the current set_environment_data call
    connsAtCall,  \* self._connections when set_environment_data was entered
    visited,      \* the handles the for loop has bound to conn_handle, in order
    dirty,        \* the set was mutated while the for loop was iterating it
    callLog,      \* gatts_notify / gatts_indicate calls of this set_environment_data
    value,        \* local of read_act
    pin,          \* level of Pin(23)
    actLog,       \* pin and buffer-clear steps of this read_act, in order
    irqRegistered, \* self._irq is registered with the stack (line 66)
    hasConnections, \* the attribute self._connections exists (line 71)
    advertising,  \* the controller is advertising
    pending,      \* links that dropped, their disconnect event not yet delivered
    i,            \* the counter i of run
    iterNo,       \* number of passes of the while loop of run started
    ops,          \* methods run has called in this pass, in order
    lastIrq,      \* the most recent indicate-done or unknown event: kind, conn, status
    fresh,        \* a peer wrote the string characteristic since the last clear
    valueFresh,   \* the value read_act holds was written since the clear before
    clobbered     \* what the string characteristic held when it was last cleared

vars == <<pc, handles, gatts, connections, payload, advCalls, advData, events,
          irqErrors, args, connsAtCall, visited, dirty, callLog, value, pin,
          actLog, irqRegistered, hasConnections, advertising, pending, i,
          iterNo, ops, lastIrq, fresh, valueFresh, clobbered>>

\* what only observes the program, or belongs to run alone
obsVars == <<i, iterNo, ops, lastIrq, fresh, valueFresh, clobbered>>

pollVars == <<args, connsAtCall, visited, callLog, value, pin, actLog>>

NoArgs == [sample |-> <<0, 0, 0>>, notify |-> FALSE, indicate |-> FALSE]

Init ==
    /\ pc = "init_register"
    /\ handles = NoHandles
    /\ gatts = [h \in {} |-> EmptyBytes]
    /\ connections = {}
    /\ payload = NoPayload
    /\ advCalls = 0
    /\ advData = {}
    /\ events = <<>>
    /\ irqErrors = 0
    /\ args = NoArgs
    /\ connsAtCall = {}
    /\ visited = <<>>
    /\ dirty = FALSE
    /\ callLog = <<>>
    /\ value = EmptyBytes
    /\ pin = 0
    /\ actLog = <<>>
    /\ irqRegistered = FALSE
    /\ hasConnections = FALSE
    /\ advertising = FALSE
    /\ pending = {}
    /\ i = 0
    /\ iterNo = 0
    /\ ops = <<>>
    /\ lastIrq = <<0, 0, 0>>
    /\ fresh = FALSE
    /\ valueFresh = FALSE
    /\ clobbered = EmptyBytes

\* ------------------------------------------------------------ __init__
\* _advertise: gap_advertise(interval_us, adv_data=self._payload)
AdvCallsAfter(n) == n + 1
AdvDataAfter(d, p) == d \cup {<<interval_us, p>>}

\* an advertising start that happens as soon as the callback is registered
InitRegisterAdvertises ==
    /\ pc = "init_register"
    /\ handles' = [temp     |-> gatts_register_services[1],
                   pressure |-> gatts_register_services[2],
                   humidity |-> gatts_register_services[3],
                   string   |-> gatts_register_services[4]]
    /\ gatts' = [h \in {gatts_register_services[k] : k \in 1..4} |-> EmptyBytes]
    /\ pc' = "init_connections"
    /\ irqRegistered' = TRUE
    /\ advCalls' = AdvCallsAfter(advCalls)
    /\ advData' = AdvDataAfter(advData, payload)
    /\ advertising' = TRUE
    /\ UNCHANGED <<connections, payload, events, irqErrors, dirty>>
    /\ UNCHANGED <<hasConnections, pending>>
    /\ UNCHANGED pollVars
    /\ UNCHANGED obsVars

\* lines 63-69: activate, register the callback, register the service and
\* unpack the four handles positionally
InitRegister ==
    /\ pc = "init_register"
    /\ handles' = [temp     |-> gatts_register_services[1],
                   pressure |-> gatts_register_services[2],
                   humidity |-> gatts_register_services[3],
                   string   |-> gatts_register_services[4]]
    /\ gatts' = [h \in {gatts_register_services[x] : x \in 1..4} |-> EmptyBytes]
    /\ pc' = "init_connections"
    /\ irqRegistered' = TRUE
    /\ UNCHANGED <<connections, payload, advCalls, advData, events, irqErrors, dirty>>
    /\ UNCHANGED <<hasConnections, advertising, pending>>
    /\ UNCHANGED pollVars
    /\ UNCHANGED obsVars

\* line 64: active(True) raises; the exception leaves __init__ and run
ActivateFails ==
    /\ pc = "init_register"
    /\ pc' = "aborted"
    /\ UNCHANGED <<handles, gatts, connections, payload, advCalls, advData,
                   events, irqErrors, dirty>>
    /\ UNCHANGED <<irqRegistered, hasConnections, advertising, pending>>
    /\ UNCHANGED pollVars
    /\ UNCHANGED obsVars

\* a failed registration that is swallowed, construction carrying on
RegisterFailsSwallowed ==
    /\ pc = "init_register"
    /\ irqRegistered' = TRUE
    /\ pc' = "init_connections"
    /\ UNCHANGED <<handles, gatts, connections, payload, advCalls, advData,
                   events, irqErrors, dirty>>
    /\ UNCHANGED <<hasConnections, advertising, pending>>
    /\ UNCHANGED pollVars
    /\ UNCHANGED obsVars

\* lines 66-69: the callback is registered, then gatts_register_services
\* raises; the exception leaves __init__ and run
RegisterFails ==
    /\ pc = "init_register"
    /\ irqRegistered' = TRUE
    /\ pc' = "aborted"
    /\ UNCHANGED <<handles, gatts, connections, payload, advCalls, advData,
                   events, irqErrors, dirty>>
    /\ UNCHANGED <<hasConnections, advertising, pending>>
    /\ UNCHANGED pollVars
    /\ UNCHANGED obsVars

\* lines 71-77: the empty connection set and the advertising payload
InitConnections ==
    /\ pc = "init_connections"
    /\ connections' = {}
    /\ payload' = advertising_payload("esp32-ble-demo", <<_ENV_SENSE_UUID>>,
                                      _ADV_APPEARANCE_GENERIC_ENVIRONMENTAL_SENSOR)
    /\ pc' = "init_advertise"
    /\ hasConnections' = TRUE
    /\ UNCHANGED <<handles, gatts, advCalls, advData, events, irqErrors,
                   dirty>>
    /\ UNCHANGED <<irqRegistered, advertising, pending>>
    /\ UNCHANGED pollVars
    /\ UNCHANGED obsVars

\* line 79; gap_advertise puts the controller into advertising
InitAdvertise ==
    /\ pc = "init_advertise"
    /\ advCalls' = AdvCallsAfter(advCalls)
    /\ advData' = AdvDataAfter(advData, payload)
    /\ advertising' = TRUE
    /\ pc' = "loop"
    /\ UNCHANGED <<handles, gatts, connections, payload, events, irqErrors, dirty>>
    /\ UNCHANGED <<irqRegistered, hasConnections, pending>>
    /\ UNCHANGED pollVars
    /\ UNCHANGED obsVars

\* ------------------------------------------------------------ _irq
\* the stack has events to deliver once the callback is registered and a
\* central could find the device, that is once advertising was started
Serving == irqRegistered /\ advCalls > 0
\* the for loop of set_environment_data holds an iterator over the set
Iterating == pc \in {"iter", "body"}

\* set.add(h), line 86
SetAdd(s, h) == s \cup {h}

\* a controller that went on advertising while a central is connected
AdvertisingOnConnectStays(a) == a

\* the controller stops advertising when a central connects; this is why
\* lines 90-91 start it "again" on the disconnect
AdvertisingOnConnect(a) == FALSE

\* lines 84-86
IrqConnect(h) ==
    /\ Serving
    /\ Len(events) < MaxEvents
    /\ connections' = SetAdd(connections, h)
    /\ dirty' = (dirty \/ (Iterating /\ h \notin connections))
    /\ events' = Append(events, <<_IRQ_CENTRAL_CONNECT, h>>)
    /\ advertising' = AdvertisingOnConnect(advertising)
    /\ UNCHANGED <<pc, handles, gatts, payload, advCalls, advData, irqErrors>>
    /\ UNCHANGED <<irqRegistered, hasConnections, pending>>
    /\ UNCHANGED pollVars
    /\ UNCHANGED obsVars

\* a remove that tolerates an absent member, as set.discard does
RemoveRaisesNever(s, h) == FALSE

\* set.remove(h) raises KeyError when h is not a member (line 89)
RemoveRaises(s, h) == h \notin s

\* a remove that leaves the member in the set
SetRemoveKeeps(s, h) == s

\* set.remove(h) of a member
SetRemove(s, h) == s \ {h}

\* lines 87-91: remove, then advertise; a KeyError of remove leaves the
\* callback before line 91.  The stack reports the exception of a callback
\* and carries on.
IrqDisconnect(h) ==
    /\ Serving
    /\ Len(events) < MaxEvents
    /\ events' = Append(events, <<_IRQ_CENTRAL_DISCONNECT, h>>)
    /\ IF RemoveRaises(connections, h)
       THEN /\ irqErrors' = irqErrors + 1
            /\ UNCHANGED <<connections, dirty, advCalls, advData, advertising>>
       ELSE /\ connections' = SetRemove(connections, h)
            /\ dirty' = (dirty \/ Iterating)
            /\ advCalls' = AdvCallsAfter(advCalls)
            /\ advData' = AdvDataAfter(advData, payload)
            /\ advertising' = TRUE
            /\ UNCHANGED irqErrors
    /\ pending' = pending \ {h}
    /\ UNCHANGED <<pc, handles, gatts, payload>>
    /\ UNCHANGED <<irqRegistered, hasConnections>>
    /\ UNCHANGED pollVars
    /\ UNCHANGED obsVars

\* a callback branch that restarts advertising on every event
IrqNoEffectRearms ==
    /\ advCalls' = AdvCallsAfter(advCalls)
    /\ UNCHANGED <<pc, handles, gatts, connections, payload, advData,
                   events, irqErrors, dirty>>
    /\ UNCHANGED <<irqRegistered, hasConnections, advertising, pending>>
    /\ UNCHANGED pollVars

\* lines 92-93 and the fall-through of the if/elif chain: nothing is
\* assigned but locals, no stack call is made
IrqNoEffect ==
    /\ UNCHANGED <<pc, handles, gatts, connections, payload, advCalls, advData,
                   events, irqErrors, dirty>>
    /\ UNCHANGED <<irqRegistered, hasConnections, advertising, pending>>
    /\ UNCHANGED pollVars

\* lines 92-93: the payload is unpacked and dropped
IrqIndicateDone(h) ==
    /\ Serving
    /\ IrqNoEffect
    /\ UNCHANGED obsVars

\* lines 92-93, the event being recorded
IrqIndicateDoneSeen(h, st) ==
    /\ Serving
    /\ IrqNoEffect
    /\ lastIrq' = <<_IRQ_GATTS_INDICATE_DONE, h, st>>
    /\ UNCHANGED <<i, iterNo, ops, fresh, valueFresh, clobbered>>

\* any other event code falls through the if/elif chain
IrqOther ==
    /\ Serving
    /\ IrqNoEffect
    /\ UNCHANGED obsVars

\* the fall-through, the event being recorded
IrqOtherSeen ==
    /\ Serving
    /\ IrqNoEffect
    /\ lastIrq' = <<_IRQ_OTHER, 0, 0>>
    /\ UNCHANGED <<i, iterNo, ops, fresh, valueFresh, clobbered>>

\* a connected peer writes the string characteristic (FLAG_WRITE, line 46)
PeerWriteCore(b) ==
    /\ Serving
    /\ gatts' = [gatts EXCEPT ![handles.string] = b]
    /\ UNCHANGED <<pc, handles, connections, payload, advCalls, advData,
                   events, irqErrors, dirty>>
    /\ UNCHANGED <<irqRegistered, hasConnections, advertising, pending>>
    /\ UNCHANGED pollVars

PeerWrite(b) ==
    /\ PeerWriteCore(b)
    /\ UNCHANGED obsVars

\* the peer write, recorded as not yet cleared
PeerWriteSeen(b) ==
    /\ PeerWriteCore(b)
    /\ fresh' = TRUE
    /\ UNCHANGED <<i, iterNo, ops, lastIrq, valueFresh, clobbered>>

\* the link of a tracked connection drops; the stack will report it with a
\* disconnect event (lines 87-88), until then the handle stays in the set
LinkDrop(h) ==
    /\ Serving
    /\ h \in connections
    /\ h \notin pending
    /\ pending' = pending \cup {h}
    /\ UNCHANGED <<pc, handles, gatts, connections, payload, advCalls, advData,
                   events, irqErrors, dirty>>
    /\ UNCHANGED <<irqRegistered, hasConnections, advertising>>
    /\ UNCHANGED pollVars
    /\ UNCHANGED obsVars

\* ------------------------------------------------ set_environment_data
Range(q) == {q[x] : x \in 1..Len(q)}

\* the humidity handle written with the pressure value
WriteSampleMixed(g, hs, s) ==
    [g EXCEPT ![hs.temp]     = Pack(IntOf(s[1])),
              ![hs.pressure] = Pack(IntOf(s[2])),
              ![hs.humidity] = Pack(IntOf(s[2]))]

\* lines 98-103: the three gatts_write calls
WriteSample(g, hs, s) ==
    [g EXCEPT ![hs.temp]     = Pack(IntOf(s[1])),
              ![hs.pressure] = Pack(IntOf(s[2])),
              ![hs.humidity] = Pack(IntOf(s[3]))]

\* lines 98-106: write the sample, then enter the for loop only when a
\* flag is set
SetEnvWriteCore(s, n, ind) ==
    /\ pc = "loop"
    /\ gatts' = WriteSample(gatts, handles, s)
    /\ args' = [sample |-> s, notify |-> n, indicate |-> ind]
    /\ connsAtCall' = connections
    /\ visited' = <<>>
    /\ callLog' = <<>>
    /\ dirty' = FALSE
    /\ pc' = IF n \/ ind THEN "iter" ELSE "published"
    /\ UNCHANGED <<handles, connections, payload, advCalls, advData, events,
                   irqErrors, value, pin, actLog>>
    /\ UNCHANGED <<irqRegistered, hasConnections, advertising, pending>>

\* set_environment_data called with any sample and any flags
SetEnvWrite(s, n, ind) ==
    /\ SetEnvWriteCore(s, n, ind)
    /\ UNCHANGED obsVars

\* lines 98-103 for integer arguments: int(v) of an integer is v
WriteInts(g, hs, s) ==
    [g EXCEPT ![hs.temp]     = Pack(s[1]),
              ![hs.pressure] = Pack(s[2]),
              ![hs.humidity] = Pack(s[3])]

\* lines 98-106 for integer arguments and both flags clear
SetEnvWriteInts(s) ==
    /\ pc = "loop"
    /\ gatts' = WriteInts(gatts, handles, s)
    /\ args' = [sample |-> s, notify |-> FALSE, indicate |-> FALSE]
    /\ connsAtCall' = connections
    /\ visited' = <<>>
    /\ callLog' = <<>>
    /\ dirty' = FALSE
    /\ pc' = "published"
    /\ UNCHANGED <<handles, connections, payload, advCalls, advData, events,
                   irqErrors, value, pin, actLog>>
    /\ UNCHANGED <<irqRegistered, hasConnections, advertising, pending>>
    /\ UNCHANGED obsVars

\* a counter that wraps one pass early
NextIShort(c) == (c + 1) % 9

\* line 152
NextI(c) == (c + 1) % 10

\* line 161: notify=i == 0
NotifyWhen(c) == c = 0

\* lines 150-161: one pass of the while loop of run up to the call of
\* set_environment_data, with notify=i == 0 and indicate=False
RunPublish(s) ==
    /\ iterNo < MaxIterations
    /\ i' = NextI(i)
    /\ iterNo' = iterNo + 1
    /\ ops' = <<"publish">>
    /\ SetEnvWriteCore(s, NotifyWhen(i'), FALSE)
    /\ UNCHANGED <<lastIrq, fresh, valueFresh, clobbered>>

\* what the set iterator may yield next.  Over an unmutated set: the members
\* not yet yielded.  Once the set was mutated under the iterator, the
\* iterator walks a table that was rearranged beneath it: it may yield any
\* current member, again or never, and it may stop.
Yieldable ==
    IF dirty
    THEN IF Len(visited) < MaxVisits THEN connections ELSE {}
    ELSE connections \ Range(visited)

\* line 107, the iterator yields a handle
IterNext(h) ==
    /\ pc = "iter"
    /\ h \in Yieldable
    /\ visited' = Append(visited, h)
    /\ pc' = "body"
    /\ UNCHANGED <<handles, gatts, connections, payload, advCalls, advData,
                   events, irqErrors, args, connsAtCall, dirty, callLog,
                   value, pin, actLog>>
    /\ UNCHANGED <<irqRegistered, hasConnections, advertising, pending>>
    /\ UNCHANGED obsVars

\* line 107, the iterator is exhausted
IterDone ==
    /\ pc = "iter"
    /\ dirty \/ Yieldable = {}
    /\ pc' = "published"
    /\ UNCHANGED <<handles, gatts, connections, payload, advCalls, advData,
                   events, irqErrors, args, connsAtCall, visited, dirty,
                   callLog, value, pin, actLog>>
    /\ UNCHANGED <<irqRegistered, hasConnections, advertising, pending>>
    /\ UNCHANGED obsVars

\* the humidity notification left out
NotifyCallsTwo(c, hs) ==
    << <<"notify", c, hs.temp>>, <<"notify", c, hs.pressure>> >>

\* lines 108-112
NotifyCalls(c, hs) ==
    << <<"notify", c, hs.temp>>, <<"notify", c, hs.pressure>>,
       <<"notify", c, hs.humidity>> >>

\* lines 113-119
IndicateCalls(c, hs) ==
    << <<"indicate", c, hs.temp>>, <<"indicate", c, hs.pressure>>,
       <<"indicate", c, hs.humidity>> >>

\* the indicate group sent ahead of the notify group
BodyCallsSwapped(c, hs, n, ind) ==
    (IF ind THEN IndicateCalls(c, hs) ELSE <<>>) \o
    (IF n THEN NotifyCalls(c, hs) ELSE <<>>)

\* lines 108-119, the stack calls of one pass of the loop body
BodyCalls(c, hs, n, ind) ==
    (IF n THEN NotifyCalls(c, hs) ELSE <<>>) \o
    (IF ind THEN IndicateCalls(c, hs) ELSE <<>>)

\* gatts_notify and gatts_indicate may raise OSError for a connection
\* handle whose link is gone; lines 108-119 have no try
SendMayRaise(c) == c \in pending

\* lines 108-119 for conn_handle, the handle the iterator yielded last,
\* every send being taken by the stack
Body ==
    /\ pc = "body"
    /\ callLog' = callLog \o BodyCalls(visited[Len(visited)], handles,
                                        args.notify, args.indicate)
    /\ pc' = "iter"
    /\ UNCHANGED <<handles, gatts, connections, payload, advCalls, advData,
                   events, irqErrors, args, connsAtCall, visited, dirty,
                   value, pin, actLog>>
    /\ UNCHANGED <<irqRegistered, hasConnections, advertising, pending>>
    /\ UNCHANGED obsVars

\* lines 108-119 for a conn_handle whose link dropped: the first send
\* raises, the exception leaves set_environment_data and then run, neither
\* of which has a handler
BodyRaises ==
    /\ pc = "body"
    /\ SendMayRaise(visited[Len(visited)])
    /\ pc' = "crashed"
    /\ UNCHANGED <<handles, gatts, connections, payload, advCalls, advData,
                   events, irqErrors, args, connsAtCall, visited, dirty,
                   callLog, value, pin, actLog>>
    /\ UNCHANGED <<irqRegistered, hasConnections, advertising, pending>>
    /\ UNCHANGED obsVars

\* a set_environment_data that clears the command buffer before it returns
SetEnvReturnClears ==
    /\ pc = "published"
    /\ pc' = "read_act"
    /\ args' = NoArgs
    /\ connsAtCall' = {}
    /\ visited' = <<>>
    /\ dirty' = FALSE
    /\ callLog' = <<>>
    /\ gatts' = [gatts EXCEPT ![handles.string] = Pack(0)]
    /\ UNCHANGED <<handles, connections, payload, advCalls, advData,
                   events, irqErrors, value, pin, actLog>>
    /\ UNCHANGED <<irqRegistered, hasConnections, advertising, pending>>
    /\ UNCHANGED obsVars

\* set_environment_data returns to run (lines 160-164); its arguments and
\* locals are gone, and the record of its calls is closed
SetEnvReturn ==
    /\ pc = "published"
    /\ pc' = "read_act"
    /\ args' = NoArgs
    /\ connsAtCall' = {}
    /\ visited' = <<>>
    /\ dirty' = FALSE
    /\ callLog' = <<>>
    /\ UNCHANGED <<handles, gatts, connections, payload, advCalls, advData,
                   events, irqErrors, value, pin, actLog>>
    /\ UNCHANGED <<irqRegistered, hasConnections, advertising, pending>>
    /\ UNCHANGED obsVars

\* ------------------------------------------------------------ read_act
\* line 132
Recognized(v) == v = BlinkBytes

\* lines 126-132
ReadActReadCore ==
    /\ pc = "read_act"
    /\ value' = gatts[handles.string]
    /\ actLog' = <<>>
    /\ pc' = IF Recognized(value') THEN "blink_on" ELSE "clear"
    /\ UNCHANGED <<handles, gatts, connections, payload, advCalls, advData,
                   events, irqErrors, args, connsAtCall, visited, dirty,
                   callLog, pin>>
    /\ UNCHANGED <<irqRegistered, hasConnections, advertising, pending>>

ReadActRead ==
    /\ ReadActReadCore
    /\ UNCHANGED obsVars

\* the read as the call that run makes at line 164
ReadActReadCalled ==
    /\ ReadActReadCore
    /\ ops' = Append(ops, "read_act")
    /\ UNCHANGED <<i, iterNo, lastIrq, fresh, valueFresh, clobbered>>

\* the read, recorded with whether a peer wrote what is read
ReadActReadSeen ==
    /\ ReadActReadCore
    /\ valueFresh' = fresh
    /\ UNCHANGED <<i, iterNo, ops, lastIrq, fresh, clobbered>>

\* gpio.blink lines 11-12: pin.on(), sleep
BlinkOn ==
    /\ pc = "blink_on"
    /\ pin' = 1
    /\ actLog' = Append(actLog, "on")
    /\ pc' = "blink_off"
    /\ UNCHANGED <<handles, gatts, connections, payload, advCalls, advData,
                   events, irqErrors, args, connsAtCall, visited, dirty,
                   callLog, value>>
    /\ UNCHANGED <<irqRegistered, hasConnections, advertising, pending>>
    /\ UNCHANGED obsVars

\* number of completed blink calls
Pulses(log) == Cardinality({k \in 1..Len(log) : log[k] = "off"})

\* a loop that stops one call early
MoreBlinksShort(done) == done < BlinkRange - 1

\* the for loop of lines 134-135 goes on while fewer than range(3) calls ran
MoreBlinks(done) == done < BlinkRange

\* gpio.blink lines 13-14: pin.off(), sleep; then back to line 134
BlinkOff ==
    /\ pc = "blink_off"
    /\ pin' = 0
    /\ actLog' = Append(actLog, "off")
    /\ pc' = IF MoreBlinks(Pulses(actLog')) THEN "blink_on" ELSE "clear"
    /\ UNCHANGED <<handles, gatts, connections, payload, advCalls, advData,
                   events, irqErrors, args, connsAtCall, visited, dirty,
                   callLog, value>>
    /\ UNCHANGED <<irqRegistered, hasConnections, advertising, pending>>
    /\ UNCHANGED obsVars

\* a clear that empties the buffer instead of writing the packed zero
ClearValueEmpty == EmptyBytes

\* line 138: struct.pack("<i", 0)
ClearValue == Pack(0)

\* a clear that spares what a peer wrote after the read
ReadActClearKeepsLate ==
    /\ pc = "clear"
    /\ gatts' = IF gatts[handles.string] = value
                THEN [gatts EXCEPT ![handles.string] = ClearValue]
                ELSE gatts
    /\ actLog' = Append(actLog, "clear")
    /\ pc' = "sleep"
    /\ UNCHANGED <<handles, connections, payload, advCalls, advData, events,
                   irqErrors, args, connsAtCall, visited, dirty, callLog,
                   value, pin>>
    /\ UNCHANGED <<irqRegistered, hasConnections, advertising, pending>>

\* line 138: the channel is cleared, read_act returns
ReadActClearCore ==
    /\ pc = "clear"
    /\ gatts' = [gatts EXCEPT ![handles.string] = ClearValue]
    /\ actLog' = Append(actLog, "clear")
    /\ pc' = "sleep"
    /\ UNCHANGED <<handles, connections, payload, advCalls, advData, events,
                   irqErrors, args, connsAtCall, visited, dirty, callLog,
                   value, pin>>
    /\ UNCHANGED <<irqRegistered, hasConnections, advertising, pending>>

ReadActClear ==
    /\ ReadActClearCore
    /\ UNCHANGED obsVars

\* the clear, recorded with what it overwrote
ReadActClearSeen ==
    /\ ReadActClearCore
    /\ clobbered' = gatts[handles.string]
    /\ fresh' = FALSE
    /\ UNCHANGED <<i, iterNo, ops, lastIrq, valueFresh>>

\* line 168, then the next pass of the while loop of run
SleepCore ==
    /\ pc = "sleep"
    /\ pc' = "loop"
    /\ value' = EmptyBytes
    /\ actLog' = <<>>
    /\ UNCHANGED <<handles, gatts, connections, payload, advCalls, advData,
                   events, irqErrors, args, connsAtCall, visited, dirty,
                   callLog, pin>>
    /\ UNCHANGED <<irqRegistered, hasConnections, advertising, pending>>

Sleep ==
    /\ SleepCore
    /\ UNCHANGED obsVars

\* the sleep, the record of the read_act that returned being dropped with
\* its locals
SleepSeen ==
    /\ SleepCore
    /\ valueFresh' = FALSE
    /\ clobbered' = EmptyBytes
    /\ UNCHANGED <<i, iterNo, ops, lastIrq, fresh>>

Next ==
    \/ InitRegister
    \/ ActivateFails
    \/ RegisterFails
    \/ InitConnections
    \/ InitAdvertise
    \/ \E h \in Handles : IrqConnect(h)
    \/ \E h \in Handles : IrqDisconnect(h)
    \/ \E h \in Handles : IrqIndicateDone(h)
    \/ IrqOther
    \/ \E b \in PeerWrites : PeerWrite(b)
    \/ \E s \in Samples, n \in BOOLEAN, ind \in BOOLEAN : SetEnvWrite(s, n, ind)
    \/ \E h \in Handles : IterNext(h)
    \/ IterDone
    \/ Body
    \/ SetEnvReturn
    \/ ReadActRead
    \/ BlinkOn
    \/ BlinkOff
    \/ ReadActClear
    \/ Sleep

Spec == Init /\ [][Next]_vars

\* the same, with links that drop before their disconnect event arrives
NextDrop ==
    \/ Next
    \/ \E h \in Handles : LinkDrop(h)
    \/ BodyRaises

SpecDrop == Init /\ [][NextDrop]_vars

\* the event callback under observation: every kind of event, beside a
\* polling loop that publishes without notifying
NextIrq ==
    \/ InitRegister
    \/ InitConnections
    \/ InitAdvertise
    \/ \E h \in Handles : IrqConnect(h)
    \/ \E h \in Handles : IrqDisconnect(h)
    \/ \E h \in Handles, st \in Statuses : IrqIndicateDoneSeen(h, st)
    \/ IrqOtherSeen
    \/ \E b \in PeerWrites : PeerWrite(b)
    \/ \E s \in Samples : SetEnvWrite(s, FALSE, FALSE)
    \/ SetEnvReturn
    \/ ReadActRead
    \/ BlinkOn
    \/ BlinkOff
    \/ ReadActClear
    \/ Sleep

SpecIrq == Init /\ [][NextIrq]_vars

\* integer samples published and read back, no peer around
NextPack ==
    \/ InitRegister
    \/ InitConnections
    \/ InitAdvertise
    \/ \E a, b \in IntInputs, c \in IntEdges : SetEnvWriteInts(<<a, b, c>>)
    \/ SetEnvReturn
    \/ ReadActRead
    \/ ReadActClear
    \/ Sleep

SpecPack == Init /\ [][NextPack]_vars

\* run as written: the counter i decides the flags; a peer writes commands
NextRun ==
    \/ InitRegister
    \/ InitConnections
    \/ InitAdvertise
    \/ \E s \in Samples : RunPublish(s)
    \/ IterDone
    \/ SetEnvReturn
    \/ ReadActReadCalled
    \/ BlinkOn
    \/ BlinkOff
    \/ ReadActClear
    \/ Sleep
    \/ \E b \in PeerWrites : PeerWrite(b)

SpecRun == Init /\ [][NextRun]_vars

\* the command channel under observation: peer writes against read_act
NextMailbox ==
    \/ InitRegister
    \/ InitConnections
    \/ InitAdvertise
    \/ \E s \in Samples : SetEnvWrite(s, FALSE, FALSE)
    \/ SetEnvReturn
    \/ ReadActReadSeen
    \/ BlinkOn
    \/ BlinkOff
    \/ ReadActClearSeen
    \/ SleepSeen
    \/ \E b \in PeerWrites : PeerWriteSeen(b)

SpecMailbox == Init /\ [][NextMailbox]_vars

\* the steps of the polling loop
Poll ==
    \/ InitRegister
    \/ InitConnections
    \/ InitAdvertise
    \/ \E s \in Samples, n \in BOOLEAN, ind \in BOOLEAN : SetEnvWrite(s, n, ind)
    \/ \E h \in Handles : IterNext(h)
    \/ IterDone
    \/ Body
    \/ SetEnvReturn
    \/ ReadActRead
    \/ BlinkOn
    \/ BlinkOff
    \/ ReadActClear
    \/ Sleep
    \/ BodyRaises

\* the polling loop is the main thread: it always gets to take its next step
SpecFair == Init /\ [][NextDrop]_vars /\ WF_vars(Poll)

\* ================================================================ claims
\* ------------------------------------------------- helpers of the claims
Connect(h) == <<_IRQ_CENTRAL_CONNECT, h>>
Disconnect(h) == <<_IRQ_CENTRAL_DISCONNECT, h>>

\* number of events e delivered so far
CountEv(e) == Cardinality({k \in 1..Len(events) : events[k] = e})

\* positions before k of the events for handle h
EarlierOf(k, h) == {j \in 1..(k - 1) : events[j][2] = h}

\* the most recent event for h before position k was a connect
ConnectedBefore(k, h) ==
    /\ EarlierOf(k, h) # {}
    /\ LET m == CHOOSE j \in EarlierOf(k, h) : \A x \in EarlierOf(k, h) : x <= j
       IN  events[m][1] = _IRQ_CENTRAL_CONNECT

\* after the whole sequence
ConnectedAtEnd(h) == ConnectedBefore(Len(events) + 1, h)

\* positions of the disconnect events that found their handle absent
AbsentDisconnects ==
    {k \in 1..Len(events) :
        /\ events[k][1] = _IRQ_CENTRAL_DISCONNECT
        /\ ~ConnectedBefore(k, events[k][2])}

\* positions of the connect events that found their handle present
DuplicateConnects ==
    {k \in 1..Len(events) :
        /\ events[k][1] = _IRQ_CENTRAL_CONNECT
        /\ ConnectedBefore(k, events[k][2])}

\* the 4-byte zero sentinel
Sentinel == <<0, 0, 0, 0>>

\* the little-endian signed reading of four bytes
Unpack(b) ==
    b[1] + 256 * b[2] + 65536 * b[3]
         + 16777216 * (IF b[4] >= 128 THEN b[4] - 256 ELSE b[4])

\* set_environment_data has returned in this pass of the polling loop
PublishDone == pc = "published"

\* calls of one kind in the call log
CallsOfKind(kind) == {k \in 1..Len(callLog) : callLog[k][1] = kind}

\* C1: a handle is in the connection set iff a connect event for it has been
\* handled and no disconnect event for it has been handled since the most
\* recent such connect.
C1_PresentIffConnectedLast ==
    \A h \in Handles : h \in connections <=> ConnectedAtEnd(h)

\* C1 witness: a handle was connected and then disconnected, and is not in
\* the set.
C1_Witness ==
    \E h \in Handles :
        /\ events = <<Connect(h), Disconnect(h)>>
        /\ h \notin connections

\* C2 (as claimed): a disconnect event for a handle that is not in the
\* connection set leaves the set alone, raises no error and makes one
\* advertise call.
C2_AbsentDisconnectRearms ==
    [][\A h \in Handles :
          (events' = Append(events, Disconnect(h)) /\ h \notin connections)
          => /\ connections' = connections
             /\ irqErrors' = irqErrors
             /\ advCalls' = advCalls + 1]_vars

C4_NoMutationWhileIterating ==
    [][Iterating => connections' = connections]_vars

\* C5: a publish with notify set and indicate clear, over a connection set
\* that holds the same N handles for the whole call, makes exactly 3*N notify
\* calls, one per numeric characteristic for each connection of the set, and
\* no indicate call; with N = 0 it makes no call.
C5_NotifyFanOut ==
    (PublishDone /\ args.notify /\ ~args.indicate /\ ~dirty)
    => /\ Cardinality(CallsOfKind("notify")) = 3 * Cardinality(connsAtCall)
       /\ CallsOfKind("indicate") = {}
       /\ \A c \in connsAtCall :
            \A ch \in {gatts_register_services[1], gatts_register_services[2],
                       gatts_register_services[3]} :
               Cardinality({k \in 1..Len(callLog) :
                              callLog[k] = <<"notify", c, ch>>}) = 1
       /\ \A k \in 1..Len(callLog) : callLog[k][2] \in connsAtCall

\* C5 witness: a notify-only publish over two connections has returned with
\* six calls.
C5_Witness ==
    /\ PublishDone /\ args.notify /\ ~args.indicate /\ ~dirty
    /\ Cardinality(connsAtCall) = 2
    /\ Len(callLog) = 6

\* C6: a publish with both flags clear stores the new sample in the three
\* numeric characteristics (four bytes each, the integer part of the value)
\* and makes no notify and no indicate call, whatever the connection set.
C6_SilentPublish ==
    (PublishDone /\ ~args.notify /\ ~args.indicate)
    => /\ callLog = <<>>
       /\ \A k \in 1..3 :
            /\ Len(gatts[gatts_register_services[k]]) = 4
            /\ Unpack(gatts[gatts_register_services[k]])
                 = IntOf(args.sample[k])

\* C6 witness: a silent publish of (21, 101325, 45) returned while a peer was
\* connected; the pressure characteristic reads CD 8B 01 00.
C6_Witness ==
    /\ PublishDone /\ ~args.notify /\ ~args.indicate
    /\ connsAtCall # {}
    /\ args.sample = <<210, 1013250, 450>>
    /\ gatts[22] = <<205, 139, 1, 0>>
    /\ gatts[21] = <<21, 0, 0, 0>>
    /\ gatts[23] = <<45, 0, 0, 0>>

\* the calls one pass of the loop body is to make, in order
GroupLen == (IF args.notify THEN 3 ELSE 0) + (IF args.indicate THEN 3 ELSE 0)
KindAt(j) == IF args.notify /\ j < 3 THEN "notify" ELSE "indicate"

\* C7: within one publish the calls for a connection are notify(temperature),
\* notify(pressure), notify(humidity), then indicate(temperature),
\* indicate(pressure), indicate(humidity); the notify group is there only
\* when notify is set, the indicate group only when indicate is set; over an
\* unmutated set each connection gets its group once.
C7_CallOrder ==
    /\ (GroupLen = 0) => callLog = <<>>
    /\ (GroupLen > 0) =>
         /\ Len(callLog) % GroupLen = 0
         /\ \A k \in 1..Len(callLog) :
              LET j == (k - 1) % GroupLen
                  b == (k - 1) \div GroupLen
              IN  /\ callLog[k][1] = KindAt(j)
                  /\ callLog[k][2] = visited[b + 1]
                  /\ callLog[k][3] = gatts_register_services[(j % 3) + 1]
    /\ ~dirty => \A a, b \in 1..Len(visited) : visited[a] = visited[b] => a = b

\* C7 witness: a publish with both flags set has sent the six calls to each
\* of two connections.
C7_Witness ==
    /\ PublishDone /\ args.notify /\ args.indicate /\ ~dirty
    /\ Len(callLog) = 12
    /\ callLog[4] = <<"indicate", visited[1], 21>>

\* C8: read_act leaves the command buffer at the 4-byte zero sentinel, and
\* pulses the pin three times when the buffer it read was exactly "blink",
\* not at all otherwise.
C8_ReadActOutcome ==
    /\ [][(pc # "sleep" /\ pc' = "sleep")
            => gatts'[gatts_register_services[4]] = Sentinel]_vars
    /\ []((pc = "sleep")
            => /\ Pulses(actLog)
                    = (IF value = <<98, 108, 105, 110, 107>> THEN 3 ELSE 0)
               /\ Cardinality({k \in 1..Len(actLog) : actLog[k] = "on"})
                    = Pulses(actLog)
               /\ pin = 0)

\* C8 witness: read_act returned after reading "blink": three pulses, buffer
\* at the sentinel.
C8_Witness ==
    /\ pc = "sleep"
    /\ value = BlinkBytes
    /\ Pulses(actLog) = 3
    /\ gatts[24] = Sentinel

\* the other branch of C8: "hello" was read, no pulse, buffer cleared
C8_WitnessHello ==
    /\ pc = "sleep"
    /\ value = HelloBytes
    /\ actLog = <<"clear">>

FullAction == <<"on", "off", "on", "off", "on", "off", "clear">>

\* C9: when read_act recognizes the command, the three on/off pulses are
\* complete before the buffer is overwritten, and the polling loop is held
\* inside read_act (at no publish position) until both have happened.
C9_ActionBeforeClear ==
    Recognized(value)
    => /\ pc \in {"blink_on", "blink_off", "clear", "sleep"}
       /\ (\E k \in 1..Len(actLog) : actLog[k] = "clear") => actLog = FullAction
       /\ (pc = "sleep") => actLog = FullAction
       /\ (pc = "clear") => (Pulses(actLog) = 3 /\ pin = 0)

\* C9 witness: the three pulses are over and the buffer still holds the
\* command.
C9_Witness ==
    /\ pc = "clear"
    /\ Recognized(value)
    /\ actLog = <<"on", "off", "on", "off", "on", "off">>
    /\ gatts[24] = BlinkBytes

\* C10 (as claimed): advertise is called once by initialization and once for
\* every disconnect event handled, by nothing else, always with the payload
\* built at initialization.
C10_AdvertiseOncePerDisconnect ==
    /\ advCalls = (IF Serving THEN 1 ELSE 0)
                   + Cardinality({k \in 1..Len(events) :
                                    events[k][1] = _IRQ_CENTRAL_DISCONNECT})
    /\ \A d \in advData : d[2] = payload /\ payload # NoPayload

\* ------------------------------------------------------------ advertising
\* the events that change whether the controller advertises: a connect, and
\* a disconnect that finds its handle in the set and so reaches line 91
Effective(k) ==
    \/ events[k][1] = _IRQ_CENTRAL_CONNECT
    \/ /\ events[k][1] = _IRQ_CENTRAL_DISCONNECT
       /\ ConnectedBefore(k, events[k][2])

EffectiveEvents == {k \in 1..Len(events) : Effective(k)}

LastEffective == CHOOSE k \in EffectiveEvents : \A x \in EffectiveEvents : x <= k

C12_PublishNeverRaises ==
    pc # "crashed"

\* ------------------------------------------------ events without effect
\* the server state: connection set, characteristic values with the command
\* buffer, handles, payload, advertising state; and the traces of stack
\* calls and of raised exceptions
ServerState == <<connections, gatts, handles, payload, advertising,
                 hasConnections, irqRegistered>>
StackCalls == <<advCalls, advData, callLog>>

\* C13: an indicate-done event, whatever its status, and an event of an
\* unknown kind leave the whole server state unchanged, make no stack call
\* and raise nothing; the polling loop is where it was.
C13_IgnoredEventsChangeNothing ==
    [][lastIrq' # lastIrq
       => /\ UNCHANGED ServerState
          /\ UNCHANGED StackCalls
          /\ UNCHANGED irqErrors
          /\ UNCHANGED <<pc, events, dirty, pending>>
          /\ UNCHANGED pollVars]_vars

\* C13 witness: an indicate-done event with a status that is not success
\* was handled while a central was connected and a command was in the
\* buffer.
C13_Witness ==
    /\ lastIrq = <<_IRQ_GATTS_INDICATE_DONE, 1, 14>>
    /\ connections = {1}
    /\ gatts[24] = BlinkBytes
    /\ irqErrors = 0

\* an unknown event was handled while the controller was not advertising
C13_WitnessOther ==
    /\ lastIrq = <<_IRQ_OTHER, 0, 0>>
    /\ connections # {}
    /\ ~advertising

\* ------------------------------------------------------------ encoding
\* the three numeric characteristics and the argument each is written from
NumericHandle(k) ==
    CASE k = 1 -> handles.temp
      [] k = 2 -> handles.pressure
      [] OTHER -> handles.humidity

\* C14: after set_environment_data wrote the integer v to a numeric
\* characteristic, the characteristic reads as four bytes, each in 0..255,
\* the top bit of the last one set exactly for negative v, and their
\* little-endian signed reading is v again.
C14_RoundTrip ==
    PublishDone
    => \A k \in 1..3 :
         LET b == gatts[NumericHandle(k)]
             v == args.sample[k]
         IN  /\ Len(b) = 4
             /\ \A x \in 1..4 : b[x] \in 0..255
             /\ (b[4] >= 128) <=> (v < 0)
             /\ Unpack(b) = v

\* C14 witness: the least value of the range, -1 and the greatest value
\* were written and read back.
C14_Witness ==
    /\ PublishDone
    /\ args.sample = <<-2147483647 - 1, -1, 2147483647>>
    /\ gatts[21] = <<0, 0, 0, 128>>
    /\ gatts[22] = <<255, 255, 255, 255>>
    /\ gatts[23] = <<255, 255, 255, 127>>

\* ------------------------------------------------ failed construction
\* construction has left lines 63-69 without the four handles: active(True)
\* or gatts_register_services raised
ConstructionFailed == pc # "init_register" /\ handles = NoHandles

\* C15: when activation or service registration fails, construction ends
\* there: advertising is never started, no connection set is created, no
\* server is returned to run, and so no event is ever handled.
C15_FailedConstructionAborts ==
    ConstructionFailed
    => /\ pc = "aborted"
       /\ advCalls = 0
       /\ ~advertising
       /\ ~hasConnections
       /\ payload = NoPayload
       /\ events = <<>>

\* C15 witness: the callback was registered, then registration of the
\* service failed.
C15_Witness ==
    /\ pc = "aborted"
    /\ irqRegistered
    /\ handles = NoHandles

\* activation itself failed
C15_WitnessActivate ==
    /\ pc = "aborted"
    /\ ~irqRegistered

\* ------------------------------------------------------------ run
\* C16: every pass of the while loop of run calls set_environment_data and
\* then read_act, once each; set_environment_data gets notify=True exactly
\* in the passes whose number is a multiple of 10, there the counter i has
\* wrapped to 0, and indicate=False in every pass.
C16_PublishThenReadActEveryTenth ==
    /\ i = iterNo % 10
    /\ pc \in {"iter", "body", "published"}
       => /\ ops = <<"publish">>
          /\ args.notify <=> (iterNo % 10 = 0)
          /\ ~args.indicate
    /\ pc = "read_act" => ops = <<"publish">>
    /\ pc \in {"blink_on", "blink_off", "clear", "sleep"}
       => ops = <<"publish", "read_act">>
    /\ pc = "loop" /\ iterNo > 0 => ops = <<"publish", "read_act">>

\* C16 witness: the twentieth pass publishes with notify, the counter
\* having wrapped a second time.
C16_Witness ==
    /\ iterNo = 20
    /\ i = 0
    /\ pc = "published"
    /\ args.notify
    /\ ~args.indicate

\* the eleventh pass is at its sleep, having published without notify
C16_WitnessQuiet ==
    /\ iterNo = 11
    /\ pc = "sleep"
    /\ ops = <<"publish", "read_act">>

\* ------------------------------------------------------ command channel
\* C17: the command buffer is a lossy mailbox.  What a peer writes after
\* read_act has read the buffer and before line 138 is overwritten by the
\* sentinel: once read_act has returned and until the next peer write the
\* buffer holds the sentinel, this read_act has acted on the value it read
\* and on nothing else, and a later read_act acts only on a command written
\* after that clear.
C17_LateWriteIsLost ==
    /\ (pc = "sleep" /\ ~fresh) => gatts[handles.string] = Sentinel
    /\ pc = "sleep" => Pulses(actLog) = (IF Recognized(value) THEN 3 ELSE 0)
    /\ (pc \in {"blink_on", "blink_off", "clear", "sleep"} /\ Recognized(value))
       => valueFresh

\* C17 witness: read_act read a text that is no command, the peer then wrote
\* "blink", read_act overwrote it with the sentinel and returned without a
\* pulse.
C17_Witness ==
    /\ pc = "sleep"
    /\ value = HelloBytes
    /\ clobbered = BlinkBytes
    /\ ~fresh
    /\ gatts[24] = Sentinel
    /\ Pulses(actLog) = 0

\* the peer wrote a second command during the blink; it is lost as well
C17_WitnessDuringBlink ==
    /\ pc = "sleep"
    /\ value = BlinkBytes
    /\ clobbered = HelloBytes
    /\ gatts[24] = Sentinel

\* ------------------------------------------------------------ progress
\* the command buffer, empty before the service is registered
CommandBuffer ==
    IF handles.string \in DOMAIN gatts THEN gatts[handles.string] ELSE EmptyBytes

InReadAct == pc \in {"blink_on", "blink_off", "clear"}

\* read_act, once entered, returns
C18_ReadActTerminates ==
    InReadAct ~> (pc = "sleep")

\* C18 (as claimed): the polling loop being scheduled fairly, after any
\* peer write to the command characteristic the buffer eventually holds the
\* sentinel again, and read_act always terminates.
C18_BufferReturnsToSentinel ==
    /\ (CommandBuffer \in PeerWrites) ~> (CommandBuffer = Sentinel)
    /\ C18_ReadActTerminates

\* the same for a polling loop that no exception ends
SpecFairNoDrop == Init /\ [][Next]_vars /\ WF_vars(Poll)

\* ------------------------------------------------------------ frames
\* a step of set_environment_data, from its call to its return, and a step
\* of read_act; events and peer writes leave pc alone
PublishStep == pc \in {"loop", "iter", "body", "published"} /\ pc' # pc
ReadActStep == pc \in {"read_act", "blink_on", "blink_off", "clear"} /\ pc' # pc

NumericValues == <<gatts[handles.temp], gatts[handles.pressure],
                   gatts[handles.humidity]>>

\* C19: set_environment_data never changes the command buffer or the
\* connection set; read_act never changes the three numeric values or the
\* connection set and makes no notify or indicate call; the four handles,
\* once captured at registration, are never changed by any step.
C19_DisjointFrames ==
    [][/\ PublishStep => /\ CommandBuffer' = CommandBuffer
                         /\ connections' = connections
       /\ ReadActStep => /\ NumericValues' = NumericValues
                         /\ connections' = connections
                         /\ callLog' = callLog
                         /\ advCalls' = advCalls
       /\ handles # NoHandles => handles' = handles]_vars

\* C19 witness: set_environment_data has notified a connected central
\* while a command was waiting in the buffer, and left both as they were.
C19_Witness ==
    /\ pc = "published"
    /\ CommandBuffer = BlinkBytes
    /\ connections = {1}
    /\ Len(callLog) = 3
    /\ handles.string = 24

\* read_act has acted on a command and cleared it with a central connected
\* and the values of the sample still in place
C19_WitnessReadAct ==
    /\ pc = "sleep"
    /\ Recognized(value)
    /\ connections # {}
    /\ NumericValues = <<Pack(21), Pack(101325), Pack(45)>>

\* ------------------------------------------------ callback before the set
\* C20: no connect or disconnect event is handled before the connection set
\* exists: the callback is registered at line 66, before line 71 creates
\* the set, but the stack has nothing to deliver before line 79 starts
\* advertising.
C20_EventsFindConnections ==
    (Serving \/ events # <<>>) => hasConnections

\* C20 witness: a connect and a disconnect were handled, both by a callback
\* that found the set.
C20_Witness ==
    /\ events = <<Connect(1), Disconnect(1)>>
    /\ hasConnections
    /\ irqErrors = 0
    /\ pc = "loop"
====
